---- MODULE Spec2Model ----
(***************************************************************************)
(* KUHP analyzer (backend/kuhp_agent.py): the relevance gate, the prompt   *)
(* builder, the upload / wait-for-active protocol of load_documents and    *)
(* the retrying generation of analyze_differences, run against a remote    *)
(* file store and a remote generation service whose answers are            *)
(* nondeterministic.                                                       *)
(*                                                                         *)
(* Text that the code inspects (the query) is a sequence of one-character  *)
(* strings; text it only passes on is a string.                            *)
(***************************************************************************)
EXTENDS Integers, Sequences, FiniteSets, TLC

\* ---------------------------------------------------------------- bounds
\* load_documents() calls made in one behaviour.
MaxLoads == 2

\* Longest query handed to _check_query_relevance on its own.
MaxQueryLen == 5

\* ------------------------------------------------------ program constants
max_wait_time == 60
wait_interval == 2
max_retries == 3
initial_retry_delay == 2
files_used_both == 2
files_used_none == 0

Callers == {1, 2}

\* ------------------------------------------------------------- text
UpperChars == <<"A","B","C","D","E","F","G","H","I","J","K","L","M","N","O","P","Q","R","S","T","U","V","W","X","Y","Z">>
LowerChars == <<"a","b","c","d","e","f","g","h","i","j","k","l","m","n","o","p","q","r","s","t","u","v","w","x","y","z">>

LowerChar(ch) ==
    IF \E i \in 1..Len(UpperChars) : UpperChars[i] = ch
    THEN LowerChars[CHOOSE i \in 1..Len(UpperChars) : UpperChars[i] = ch]
    ELSE ch

\* str.lower()
Lower(s) == [i \in 1..Len(s) |-> LowerChar(s[i])]

\* Python's  k in s  on strings: k occurs in s as a contiguous substring.
Contains(s, k) ==
    \E i \in 0..(Len(s) - Len(k)) : SubSeq(s, i + 1, i + Len(k)) = k

kuhp_keywords ==
    << <<"k","u","h","p">>,
       <<"h","u","k","u","m"," ","p","i","d","a","n","a">>,
       <<"p","a","s","a","l">>,
       <<"p","i","d","a","n","a">>,
       <<"k","e","j","a","h","a","t","a","n">>,
       <<"p","e","l","a","n","g","g","a","r","a","n">>,
       <<"p","e","n","c","u","r","i","a","n">>,
       <<"p","e","m","b","u","n","u","h","a","n">>,
       <<"p","e","n","g","a","n","i","a","y","a","a","n">>,
       <<"p","e","n","i","p","u","a","n">>,
       <<"k","o","r","u","p","s","i">>,
       <<"p","e","r","k","o","s","a","a","n">>,
       <<"n","a","r","k","o","b","a">>,
       <<"t","e","r","o","r","i","s","m","e">>,
       <<"c","y","b","e","r">>,
       <<"c","y","b","e","r"," ","c","r","i","m","e">>,
       <<"s","a","n","k","s","i">>,
       <<"h","u","k","u","m","a","n">>,
       <<"d","e","n","d","a">>,
       <<"p","e","n","j","a","r","a">>,
       <<"k","u","r","u","n","g","a","n">>,
       <<"t","a","h","a","n","a","n">>,
       <<"t","i","n","d","a","k"," ","p","i","d","a","n","a">>,
       <<"d","e","l","i","k">>,
       <<"u","n","s","u","r">>,
       <<"a","n","c","a","m","a","n">>,
       <<"m","a","k","s","i","m","a","l">>,
       <<"m","i","n","i","m","a","l">> >>

\* Mutant: the query is not lower-cased.
check_query_relevance_nolower(query) ==
    \E n \in 1..Len(kuhp_keywords) : Contains(query, kuhp_keywords[n])

check_query_relevance(query) ==
    LET query_lower == Lower(query)
    IN  \E n \in 1..Len(kuhp_keywords) : Contains(query_lower, kuhp_keywords[n])

IrrelevantText == "Maaf, pertanyaan Anda sepertinya tidak terkait dengan KUHP"

get_irrelevant_response(query) == IrrelevantText

PromptHead == "Anda adalah AI assistant ... Query pengguna: "
PromptTail == "=== INSTRUKSI ANALISIS === ... Jawab dalam bahasa Indonesia yang profesional dan informatif."

build_analysis_prompt(query) == <<PromptHead>> \o query \o <<PromptTail>>

\* The queries callers send.
QSanksi == <<"A","p","a"," ","s","a","n","k","s","i"," ","p","e","n","c","u","r","i","a","n","?">>
QCuaca == <<"B","a","g","a","i","m","a","n","a"," ","c","u","a","c","a"," ","h","a","r","i"," ","i","n","i","?">>
QPasal == <<"P","A","S","A","L"," ","3","5","1">>
Queries == {QSanksi, QCuaca, QPasal}

\* Texts the generation service answers with; "" is a response without text.
Texts == {"analisis", ""}

\* ------------------------------------------------------------- values
\* Lifecycle states the remote store reports for a file.
FileStates == {"PROCESSING", "ACTIVE", "FAILED"}

\* Python's None for a file attribute.
NoFile == [name |-> 0, display_name |-> "None"]

NoResult == [kind |-> "none"]
Raised(e) == [kind |-> "raise", error |-> e]
Returned(v) == [kind |-> "return", value |-> v]

NoCalls == [get_file |-> 0, generate_content |-> 0, upload_file |-> 0]

NoLoadLog ==
    [was_initialized |-> FALSE, old_before |-> NoFile, new_before |-> NoFile,
     old_path |-> "unexamined", new_path |-> "unexamined",
     upload_file |-> 0, get_file |-> 0, polls |-> 0, slept |-> 0, wait |-> "none"]

\* ------------------------------------------------------------- state
VARIABLES
    is_initialized,   \* KUHPAnalyzer.is_initialized
    old_kuhp_file,    \* KUHPAnalyzer.old_kuhp_file
    new_kuhp_file,    \* KUHPAnalyzer.new_kuhp_file
    fileState,        \* remote store: lifecycle state of each file the analyzer holds a handle of
    uploaded,         \* remote store: files created so far (names are never reused)
    lpc,              \* position of the load_documents() call
    loads,            \* load_documents() calls started
    elapsed,          \* _wait_for_files_active: elapsed
    old_file_info,    \* _wait_for_files_active: state fetched for the old file
    load_ret,         \* what load_documents() returned
    load_log,         \* what the load_documents() call did
    pc,               \* position of each caller's analyze_differences() call
    query,            \* its argument
    prompt,           \* analysis_prompt
    attempt,          \* _generate_response_with_files: attempt
    retry_delay,      \* _generate_response_with_files: retry_delay
    seen_old,         \* _verify_files_ready: old_file_info.state.name
    seen_new,         \* _verify_files_ready: new_file_info.state.name
    waits,            \* the time.sleep() arguments of the call, in order
    errs,             \* the exception of each failed attempt, in order
    gens,             \* the generate_content() calls of the call, in order
    ncalls,           \* remote calls issued by the call
    result            \* how the call ended

analyzerVars == <<is_initialized, old_kuhp_file, new_kuhp_file>>
loadVars == <<lpc, loads, elapsed, old_file_info, load_ret, load_log>>
callVars == <<pc, query, prompt, attempt, retry_delay, seen_old, seen_new,
              waits, errs, gens, ncalls, result>>
storeVars == <<fileState, uploaded>>
vars == <<analyzerVars, storeVars, loadVars, callVars>>

Init ==
    /\ is_initialized = FALSE
    /\ old_kuhp_file = NoFile
    /\ new_kuhp_file = NoFile
    /\ fileState = <<>>
    /\ uploaded = 0
    /\ lpc = "idle"
    /\ loads = 0
    /\ elapsed = 0
    /\ old_file_info = "None"
    /\ load_ret = "none"
    /\ load_log = NoLoadLog
    /\ pc = [c \in Callers |-> "idle"]
    /\ query = [c \in Callers |-> <<>>]
    /\ prompt = [c \in Callers |-> <<>>]
    /\ attempt = [c \in Callers |-> 0]
    /\ retry_delay = [c \in Callers |-> initial_retry_delay]
    /\ seen_old = [c \in Callers |-> "None"]
    /\ seen_new = [c \in Callers |-> "None"]
    /\ waits = [c \in Callers |-> <<>>]
    /\ errs = [c \in Callers |-> <<>>]
    /\ gens = [c \in Callers |-> <<>>]
    /\ ncalls = [c \in Callers |-> NoCalls]
    /\ result = [c \in Callers |-> NoResult]

\* ------------------------------------------------------------- remote store
\* The store moves a file to another lifecycle state (processing finishes,
\* fails, or the file expires) at any time.  A file whose handle the analyzer
\* has dropped can no longer be named by it and is left out of fileState.
StoreChange ==
    \E n \in DOMAIN fileState, s \in FileStates :
        /\ fileState[n] # s
        /\ fileState' = [fileState EXCEPT ![n] = s]
        /\ UNCHANGED <<analyzerVars, uploaded, loadVars, callVars>>

\* genai.upload_file: the handle of a new file.
upload_file(display_name) == [name |-> uploaded + 1, display_name |-> display_name]

\* The store after an upload whose handle replaces  dropped : the new file
\* starts PROCESSING.
StoreAfterUpload(dropped) ==
    [n \in (DOMAIN fileState \ {dropped.name}) \cup {uploaded + 1} |->
        IF n = uploaded + 1 THEN "PROCESSING" ELSE fileState[n]]

\* ------------------------------------------------------------- load_documents
LoadReturn(ret) ==
    /\ lpc' = "done"
    /\ load_ret' = ret

\* load_documents() is called while no other call is in progress.
LoadStart ==
    /\ lpc = "idle"
    /\ \A c \in Callers : pc[c] = "idle"
    /\ loads < MaxLoads
    /\ lpc' = "old"
    /\ loads' = loads + 1
    /\ elapsed' = 0
    /\ old_file_info' = "None"
    /\ load_ret' = "none"
    /\ load_log' = [NoLoadLog EXCEPT !.was_initialized = is_initialized,
                                     !.old_before = old_kuhp_file,
                                     !.new_before = new_kuhp_file]
    /\ UNCHANGED <<analyzerVars, storeVars, callVars>>

\* Mutant: a missing file is only logged and the load goes on.
AfterPath_MissingGoesOn(outcome, next) == IF outcome = "upload_error" THEN "done" ELSE next

\* Mutant: a failed upload is only logged and the load goes on.
AfterPath_UploadErrorGoesOn(outcome, next) == IF outcome = "missing" THEN "done" ELSE next

\* Mutant: neither a missing file nor a failed upload ends the load.
AfterPath_AlwaysGoesOn(outcome, next) == next

\* Where load_documents goes after examining a path: on to the next step when
\* the file was uploaded, out (return False) when it is missing or the upload raised.
AfterPath(outcome, next) == IF outcome = "uploaded" THEN next ELSE "done"

\* Mutant: an early exit reports success.
EarlyReturn_True(to) == IF to = "done" THEN "True" ELSE "none"

\* Leaving load_documents from one of its early exits returns False.
EarlyReturn(to) == IF to = "done" THEN "False" ELSE "none"

UploadOld ==
    /\ lpc = "old"
    /\ \E outcome \in {"missing", "upload_error", "uploaded"} :
        /\ load_log' = [load_log EXCEPT
                           !.old_path = outcome,
                           !.upload_file = IF outcome = "missing" THEN @ ELSE @ + 1]
        /\ IF outcome = "uploaded"
           THEN /\ old_kuhp_file' = upload_file("KUHP Lama")
                /\ fileState' = StoreAfterUpload(old_kuhp_file)
                /\ uploaded' = uploaded + 1
           ELSE UNCHANGED <<old_kuhp_file, storeVars>>
        /\ lpc' = AfterPath(outcome, "new")
        /\ load_ret' = EarlyReturn(lpc')
    /\ UNCHANGED <<is_initialized, new_kuhp_file, loads, elapsed, old_file_info, callVars>>

UploadNew ==
    /\ lpc = "new"
    /\ \E outcome \in {"missing", "upload_error", "uploaded"} :
        /\ load_log' = [load_log EXCEPT
                           !.new_path = outcome,
                           !.upload_file = IF outcome = "missing" THEN @ ELSE @ + 1]
        /\ IF outcome = "uploaded"
           THEN /\ new_kuhp_file' = upload_file("KUHP Baru")
                /\ fileState' = StoreAfterUpload(new_kuhp_file)
                /\ uploaded' = uploaded + 1
           ELSE UNCHANGED <<new_kuhp_file, storeVars>>
        /\ lpc' = AfterPath(outcome, "wait")
        /\ load_ret' = EarlyReturn(lpc')
    /\ UNCHANGED <<is_initialized, old_kuhp_file, loads, elapsed, old_file_info, callVars>>

\* Mutant: the loop runs once more at the limit.
WaitLoopGuard_Inclusive(e) == e <= max_wait_time

\* while elapsed < max_wait_time
WaitLoopGuard(e) == e < max_wait_time

\* old_file_info and ... == "ACTIVE" and new_file_info and ... == "ACTIVE"
BothActive(o, n) == o # "None" /\ o = "ACTIVE" /\ n # "None" /\ n = "ACTIVE"

\* The rest of load_documents once _wait_for_files_active has returned.
LoadSucceeds ==
    /\ is_initialized' = TRUE
    /\ LoadReturn("True")

\* Mutant: the handler of a failed load resets the flag.
LoadWaitRaises_Resets ==
    /\ LoadReturn("False")
    /\ is_initialized' = FALSE

\* Mutant: the wait swallows the exception and the load goes on.
LoadWaitRaises_Swallowed ==
    /\ is_initialized' = TRUE
    /\ LoadReturn("True")

\* An exception of _wait_for_files_active reaches load_documents' handler.
LoadWaitRaises ==
    /\ LoadReturn("False")
    /\ UNCHANGED is_initialized

WaitGetOld ==
    /\ lpc = "wait"
    /\ WaitLoopGuard(elapsed)
    /\ IF old_kuhp_file = NoFile
       THEN /\ old_file_info' = "None"
            /\ lpc' = "wait_new"
            /\ UNCHANGED <<load_ret, load_log, is_initialized>>
       ELSE \E ok \in BOOLEAN :
              IF ok
              THEN /\ old_file_info' = fileState[old_kuhp_file.name]
                   /\ lpc' = "wait_new"
                   /\ load_log' = [load_log EXCEPT !.get_file = @ + 1]
                   /\ UNCHANGED <<load_ret, is_initialized>>
              ELSE /\ LoadWaitRaises
                   /\ load_log' = [load_log EXCEPT !.get_file = @ + 1, !.wait = "error"]
                   /\ UNCHANGED old_file_info
    /\ UNCHANGED <<old_kuhp_file, new_kuhp_file, storeVars, loads, elapsed, callVars>>

WaitGetNew ==
    /\ lpc = "wait_new"
    /\ \E ok \in BOOLEAN :
         LET fetched == new_kuhp_file # NoFile
             new_file_info == IF fetched /\ ok THEN fileState[new_kuhp_file.name] ELSE "None"
             n == IF fetched THEN 1 ELSE 0
         IN  IF fetched /\ ~ok
             THEN /\ LoadWaitRaises
                  /\ load_log' = [load_log EXCEPT !.get_file = @ + n, !.wait = "error"]
             ELSE IF BothActive(old_file_info, new_file_info)
             THEN /\ LoadSucceeds
                  /\ load_log' = [load_log EXCEPT !.get_file = @ + n, !.polls = @ + 1,
                                                  !.wait = "active"]
             ELSE /\ lpc' = "wait_sleep"
                  /\ load_log' = [load_log EXCEPT !.get_file = @ + n, !.polls = @ + 1]
                  /\ UNCHANGED <<load_ret, is_initialized>>
    /\ UNCHANGED <<old_kuhp_file, new_kuhp_file, storeVars, loads, elapsed, old_file_info, callVars>>

\* time.sleep(wait_interval); elapsed += wait_interval
WaitSleep ==
    /\ lpc = "wait_sleep"
    /\ elapsed' = elapsed + wait_interval
    /\ load_log' = [load_log EXCEPT !.slept = @ + wait_interval]
    /\ lpc' = "wait"
    /\ UNCHANGED <<analyzerVars, storeVars, loads, old_file_info, load_ret, callVars>>

\* Mutant: running out of time fails the load.
WaitTimeout_Fails ==
    /\ lpc = "wait"
    /\ ~WaitLoopGuard(elapsed)
    /\ LoadReturn("False")
    /\ load_log' = [load_log EXCEPT !.wait = "timeout"]
    /\ UNCHANGED <<analyzerVars, storeVars, loads, elapsed, old_file_info, callVars>>

\* The loop condition fails: the warning is printed and the function returns.
WaitTimeout ==
    /\ lpc = "wait"
    /\ ~WaitLoopGuard(elapsed)
    /\ LoadSucceeds
    /\ load_log' = [load_log EXCEPT !.wait = "timeout"]
    /\ UNCHANGED <<old_kuhp_file, new_kuhp_file, storeVars, loads, elapsed, old_file_info, callVars>>

\* The caller of load_documents() has its answer; the analyzer is free again.
LoadRelease ==
    /\ lpc = "done"
    /\ lpc' = "idle"
    /\ elapsed' = 0
    /\ old_file_info' = "None"
    /\ load_ret' = "none"
    /\ load_log' = NoLoadLog
    /\ UNCHANGED <<analyzerVars, storeVars, loads, callVars>>

\* ------------------------------------------------------------- analyze_differences
\* Mutant: only the uploaded-files guard is left.
GuardError_FilesOnly ==
    IF old_kuhp_file = NoFile \/ new_kuhp_file = NoFile THEN "PDF files belum di-upload"
    ELSE "ok"

\* The two guards at the top of analyze_differences.
GuardError ==
    IF ~is_initialized THEN "Gemini belum diinisialisasi"
    ELSE IF old_kuhp_file = NoFile \/ new_kuhp_file = NoFile THEN "PDF files belum di-upload"
    ELSE "ok"

\* Mutant: the relevance check is skipped.
AnalyzeRoute_NoRelevanceGate(q) ==
    IF GuardError # "ok" THEN "raise" ELSE "generate"

\* Which way a call goes after the guards and the relevance check.
AnalyzeRoute(q) ==
    IF GuardError # "ok" THEN "raise"
    ELSE IF ~check_query_relevance(q) THEN "irrelevant"
    ELSE "generate"

IrrelevantResult(q) ==
    [response |-> get_irrelevant_response(q), is_relevant |-> FALSE, files_used |-> files_used_none]

RelevantResult(response) ==
    [response |-> response, is_relevant |-> TRUE, files_used |-> files_used_both]

\* Mutant: the two files are passed in the other order.
Content_Swapped(p) == <<new_kuhp_file, old_kuhp_file, p>>

\* content = [self.old_kuhp_file, self.new_kuhp_file, prompt]
Content(p) == <<old_kuhp_file, new_kuhp_file, p>>

\* Mutant: the state of the new file is not checked.
VerifyError_OldOnly(o, n) ==
    IF o # "ACTIVE" THEN "KUHP Lama file is not active" ELSE "ok"

\* What _verify_files_ready raises for the two fetched states ("ok": nothing).
VerifyError(o, n) ==
    IF o # "ACTIVE" THEN "KUHP Lama file is not active"
    ELSE IF n # "ACTIVE" THEN "KUHP Baru file is not active"
    ELSE "ok"

\* Mutant: the text test is inverted.
HasText_Inverted(reply) == reply = ""

\* Mutant: the text is not tested.
HasText_Always(reply) == TRUE

\* if response.text
HasText(reply) == reply # ""

\* for attempt in range(max_retries)
InRange(a) == a < max_retries

\* Mutant: a failed attempt is never retried.
CanRetry_Never(a) == FALSE

\* if attempt < max_retries - 1
CanRetry(a) == a < max_retries - 1

\* Mutant: the delay is not doubled.
NextRetryDelay_Constant(d) == d

\* retry_delay *= 2
NextRetryDelay(d) == d * 2

\* Mutant: the first failure is raised instead of the last.
FinalError_First(es) == es[1]

\* The bare  raise  of the last attempt re-raises the exception just caught,
\* and analyze_differences' handler re-raises it again.
FinalError(es) == es[Len(es)]

Finish(c, r) ==
    /\ pc' = [pc EXCEPT ![c] = "done"]
    /\ result' = [result EXCEPT ![c] = r]

\* analyze_differences from its entry up to the first remote call.
AnalyzeBegin(c) ==
    /\ pc[c] = "idle"
    /\ lpc = "idle"
    /\ \E q \in Queries :
        /\ query' = [query EXCEPT ![c] = q]
        /\ attempt' = [attempt EXCEPT ![c] = 0]
        /\ retry_delay' = [retry_delay EXCEPT ![c] = initial_retry_delay]
        /\ IF AnalyzeRoute(q) = "raise"
           THEN /\ Finish(c, Raised(GuardError))
                /\ UNCHANGED prompt
           ELSE IF AnalyzeRoute(q) = "irrelevant"
           THEN /\ Finish(c, Returned(IrrelevantResult(q)))
                /\ UNCHANGED prompt
           ELSE /\ prompt' = [prompt EXCEPT ![c] = build_analysis_prompt(q)]
                /\ pc' = [pc EXCEPT ![c] = "verify_old"]
                /\ UNCHANGED result
    /\ UNCHANGED <<analyzerVars, storeVars, loadVars, seen_old, seen_new, waits, errs, gens, ncalls>>

\* The start of a call up to the first remote call.  Calls are served one at a
\* time: the /analyze endpoint runs analyze_differences on the event loop and
\* load_documents runs in the startup handler, so no call overlaps another.
AnalyzeStart(c) ==
    /\ \A d \in Callers : pc[d] = "idle"
    /\ AnalyzeBegin(c)

\* The except branch of one attempt: retry after the backoff, or raise.
AttemptFails(c, e) ==
    /\ errs' = [errs EXCEPT ![c] = Append(@, e)]
    /\ IF CanRetry(attempt[c])
       THEN /\ pc' = [pc EXCEPT ![c] = "backoff"]
            /\ UNCHANGED result
       ELSE Finish(c, Raised(FinalError(errs'[c])))

\* self.old_kuhp_file.name of None raises before get_file is called.
VerifyOld(c) ==
    /\ pc[c] = "verify_old"
    /\ ncalls' = [ncalls EXCEPT ![c].get_file = IF old_kuhp_file = NoFile THEN @ ELSE @ + 1]
    /\ \E ok \in BOOLEAN :
         IF old_kuhp_file = NoFile
         THEN /\ AttemptFails(c, "AttributeError")
              /\ UNCHANGED seen_old
         ELSE IF ok
         THEN /\ seen_old' = [seen_old EXCEPT ![c] = fileState[old_kuhp_file.name]]
              /\ pc' = [pc EXCEPT ![c] = "verify_new"]
              /\ UNCHANGED <<errs, result>>
         ELSE /\ AttemptFails(c, "get_file failed")
              /\ UNCHANGED seen_old
    /\ UNCHANGED <<analyzerVars, storeVars, loadVars, query, prompt, attempt, retry_delay,
                   seen_new, waits, gens>>

VerifyNew(c) ==
    /\ pc[c] = "verify_new"
    /\ ncalls' = [ncalls EXCEPT ![c].get_file = IF new_kuhp_file = NoFile THEN @ ELSE @ + 1]
    /\ \E ok \in BOOLEAN :
         IF new_kuhp_file = NoFile
         THEN /\ AttemptFails(c, "AttributeError")
              /\ UNCHANGED seen_new
         ELSE IF ok
         THEN LET n == fileState[new_kuhp_file.name]
              IN  /\ seen_new' = [seen_new EXCEPT ![c] = n]
                  /\ IF VerifyError(seen_old[c], n) = "ok"
                     THEN /\ pc' = [pc EXCEPT ![c] = "generate"]
                          /\ UNCHANGED <<errs, result>>
                     ELSE AttemptFails(c, VerifyError(seen_old[c], n))
         ELSE /\ AttemptFails(c, "get_file failed")
              /\ UNCHANGED seen_new
    /\ UNCHANGED <<analyzerVars, storeVars, loadVars, query, prompt, attempt, retry_delay,
                   seen_old, waits, gens>>

\* self.model.generate_content(content): a text, no text, or an exception.
Generate(c) ==
    /\ pc[c] = "generate"
    /\ ncalls' = [ncalls EXCEPT ![c].generate_content = @ + 1]
    /\ \E reply \in Texts \cup {"raise"} :
        /\ gens' = [gens EXCEPT ![c] = Append(@,
                       [attempt |-> attempt[c], content |-> Content(prompt[c]),
                        seen_old |-> seen_old[c], seen_new |-> seen_new[c],
                        reply |-> reply])]
        /\ IF reply = "raise" THEN AttemptFails(c, "generate_content failed")
           ELSE IF ~HasText(reply) THEN AttemptFails(c, "Empty response received from Gemini")
           ELSE /\ Finish(c, Returned(RelevantResult(reply)))
                /\ UNCHANGED errs
    /\ UNCHANGED <<analyzerVars, storeVars, loadVars, query, prompt, attempt, retry_delay,
                   seen_old, seen_new, waits>>

\* Mutant: retry_delay is kept on the analyzer and shared by all calls.
Backoff_SharedDelay(c) ==
    /\ pc[c] = "backoff"
    /\ waits' = [waits EXCEPT ![c] = Append(@, retry_delay[c])]
    /\ retry_delay' = [d \in Callers |-> NextRetryDelay(retry_delay[c])]
    /\ seen_old' = [seen_old EXCEPT ![c] = "None"]
    /\ seen_new' = [seen_new EXCEPT ![c] = "None"]
    /\ IF InRange(attempt[c] + 1)
       THEN /\ attempt' = [attempt EXCEPT ![c] = @ + 1]
            /\ pc' = [pc EXCEPT ![c] = "verify_old"]
            /\ UNCHANGED result
       ELSE /\ Finish(c, Returned(RelevantResult("None")))
            /\ UNCHANGED attempt
    /\ UNCHANGED <<analyzerVars, storeVars, loadVars, query, prompt, errs, gens, ncalls>>

\* time.sleep(retry_delay); retry_delay *= 2; then the next iteration of the
\* loop, or, were the range exhausted, the end of the function (it returns
\* None, which analyze_differences wraps as the response).
Backoff(c) ==
    /\ pc[c] = "backoff"
    /\ waits' = [waits EXCEPT ![c] = Append(@, retry_delay[c])]
    /\ retry_delay' = [retry_delay EXCEPT ![c] = NextRetryDelay(@)]
    /\ seen_old' = [seen_old EXCEPT ![c] = "None"]
    /\ seen_new' = [seen_new EXCEPT ![c] = "None"]
    /\ IF InRange(attempt[c] + 1)
       THEN /\ attempt' = [attempt EXCEPT ![c] = @ + 1]
            /\ pc' = [pc EXCEPT ![c] = "verify_old"]
            /\ UNCHANGED result
       ELSE /\ Finish(c, Returned(RelevantResult("None")))
            /\ UNCHANGED attempt
    /\ UNCHANGED <<analyzerVars, storeVars, loadVars, query, prompt, errs, gens, ncalls>>

\* The caller has its answer and may call again.
AnalyzeRelease(c) ==
    /\ pc[c] = "done"
    /\ pc' = [pc EXCEPT ![c] = "idle"]
    /\ query' = [query EXCEPT ![c] = <<>>]
    /\ prompt' = [prompt EXCEPT ![c] = <<>>]
    /\ attempt' = [attempt EXCEPT ![c] = 0]
    /\ retry_delay' = [retry_delay EXCEPT ![c] = initial_retry_delay]
    /\ seen_old' = [seen_old EXCEPT ![c] = "None"]
    /\ seen_new' = [seen_new EXCEPT ![c] = "None"]
    /\ waits' = [waits EXCEPT ![c] = <<>>]
    /\ errs' = [errs EXCEPT ![c] = <<>>]
    /\ gens' = [gens EXCEPT ![c] = <<>>]
    /\ ncalls' = [ncalls EXCEPT ![c] = NoCalls]
    /\ result' = [result EXCEPT ![c] = NoResult]
    /\ UNCHANGED <<analyzerVars, storeVars, loadVars>>

Next ==
    \/ StoreChange
    \/ LoadStart
    \/ UploadOld
    \/ UploadNew
    \/ WaitGetOld
    \/ WaitGetNew
    \/ WaitSleep
    \/ WaitTimeout
    \/ LoadRelease
    \/ \E c \in Callers : AnalyzeStart(c)
    \/ \E c \in Callers : VerifyOld(c)
    \/ \E c \in Callers : VerifyNew(c)
    \/ \E c \in Callers : Generate(c)
    \/ \E c \in Callers : Backoff(c)
    \/ \E c \in Callers : AnalyzeRelease(c)

Spec == Init /\ [][Next]_vars

\* ------------------------------------------------------------- properties
NotActiveErrors == {"KUHP Lama file is not active", "KUHP Baru file is not active"}

\* The generate_content() calls that attempt number a (from 0) of caller c issued.
GensOfAttempt(c, a) == {i \in 1..Len(gens[c]) : gens[c][i].attempt = a}

\* C1: a call on an initialized analyzer whose query the relevance filter
\* rejects is over at once: it returns the fixed guidance text with
\* is_relevant false and files_used 0, and has issued no get_file, no
\* generate_content and no upload_file.
C1_IrrelevantShortCircuit ==
    \A c \in Callers :
        (pc[c] # "idle" /\ is_initialized /\ ~check_query_relevance(query[c])) =>
            /\ pc[c] = "done"
            /\ result[c] = Returned([response |-> IrrelevantText,
                                     is_relevant |-> FALSE, files_used |-> 0])
            /\ ncalls[c] = NoCalls
            /\ gens[c] = <<>>

C1_Witness ==
    \E c \in Callers :
        /\ pc[c] = "done"
        /\ is_initialized
        /\ query[c] = QCuaca
        /\ result[c].kind = "return"

\* C2: whatever the store does, every generate_content call was issued in an
\* attempt whose _verify_files_ready fetched both states and found both ACTIVE,
\* and an attempt that failed because a file was reported not ACTIVE issued no
\* generate_content call.
C2_GenerationOnlyWhenBothActive ==
    \A c \in Callers :
        /\ pc[c] = "generate" => (seen_old[c] = "ACTIVE" /\ seen_new[c] = "ACTIVE")
        /\ \A i \in 1..Len(gens[c]) :
               gens[c][i].seen_old = "ACTIVE" /\ gens[c][i].seen_new = "ACTIVE"
        /\ \A a \in 1..Len(errs[c]) :
               errs[c][a] \in NotActiveErrors => GensOfAttempt(c, a - 1) = {}
        /\ (pc[c] \in {"verify_old", "verify_new"}) => GensOfAttempt(c, attempt[c]) = {}

C2_Witness ==
    \E c \in Callers :
        /\ Len(errs[c]) >= 1
        /\ errs[c][1] = "KUHP Baru file is not active"
        /\ Len(gens[c]) >= 1

\* C3: a call on an analyzer that is not initialized ends at once with the
\* not-initialized error, whatever the query, and has issued no remote call.
C3_UninitializedFailsFast ==
    \A c \in Callers :
        (pc[c] # "idle" /\ ~is_initialized) =>
            /\ pc[c] = "done"
            /\ result[c] = Raised("Gemini belum diinisialisasi")
            /\ ncalls[c] = NoCalls
            /\ gens[c] = <<>>

C3_Witness ==
    \E c \in Callers :
        /\ pc[c] = "done"
        /\ ~is_initialized
        /\ loads >= 1
        /\ old_kuhp_file # NoFile
        /\ new_kuhp_file # NoFile
        /\ check_query_relevance(query[c])
        /\ result[c].kind = "raise"

\* C4: a call makes at most 3 attempts; the waits are 2 after the first failed
\* attempt and 4 after the second, none after the third; and a generate_content
\* call that returned text is the last thing the call did.
C4_RetryBudgetAndBackoff ==
    \A c \in Callers :
        /\ attempt[c] <= 2
        /\ Len(errs[c]) <= 3
        /\ Len(gens[c]) <= 3
        /\ Len(waits[c]) <= 2
        /\ waits[c] = SubSeq(<<2, 4>>, 1, Len(waits[c]))
        /\ pc[c] \in {"verify_old", "verify_new", "generate"} =>
               (Len(errs[c]) = attempt[c] /\ Len(waits[c]) = attempt[c])
        /\ pc[c] = "backoff" => (Len(errs[c]) = attempt[c] + 1 /\ Len(waits[c]) = attempt[c])
        /\ Len(errs[c]) = 3 => (pc[c] = "done" /\ waits[c] = <<2, 4>>)
        /\ \A i \in 1..Len(gens[c]) :
               gens[c][i].reply \notin {"", "raise"} =>
                   (i = Len(gens[c]) /\ pc[c] = "done" /\ Len(errs[c]) = gens[c][i].attempt)

C4_Witness ==
    \E c \in Callers : pc[c] = "done" /\ Len(errs[c]) = 3 /\ waits[c] = <<2, 4>>

\* C5: when all 3 attempts failed the call ends with the exception of the 3rd
\* attempt, and a call that returned a relevant result did so from an attempt
\* whose generate_content returned that text.
C5_LastErrorPropagates ==
    \A c \in Callers :
        /\ Len(errs[c]) = 3 => (pc[c] = "done" /\ result[c] = Raised(errs[c][3]))
        /\ (result[c].kind = "return" /\ result[c].value.is_relevant) =>
               /\ Len(errs[c]) < 3
               /\ Len(gens[c]) >= 1
               /\ gens[c][Len(gens[c])].reply = result[c].value.response
               /\ result[c].value.response \notin {"", "raise"}

C5_Witness ==
    \E c \in Callers :
        /\ pc[c] = "done"
        /\ Len(errs[c]) = 3
        /\ errs[c][1] = "Empty response received from Gemini"
        /\ errs[c][3] = "KUHP Lama file is not active"
        /\ result[c].kind = "raise"

\* C6: the content of every generate_content call is the old file, the new
\* file and the prompt built from the query, in that order.
C6_PayloadOrder ==
    \A c \in Callers : \A i \in 1..Len(gens[c]) :
        LET content == gens[c][i].content
        IN  /\ Len(content) = 3
            /\ content[1] = old_kuhp_file
            /\ content[1].display_name = "KUHP Lama"
            /\ content[2] = new_kuhp_file
            /\ content[2].display_name = "KUHP Baru"
            /\ content[3] = build_analysis_prompt(query[c])

\* The old file was uploaded after the new one (by a later load).
C6_Witness ==
    \E c \in Callers : \E i \in 1..Len(gens[c]) :
        gens[c][i].content[1].name > gens[c][i].content[2].name

\* C7: on an analyzer that is not initialized, a load that finds a path missing
\* is over: it returned False, is_initialized is false, no file was uploaded
\* for the missing side and no state was polled.
C7_MissingPathFailsLoad ==
    (/\ ~load_log.was_initialized
     /\ (load_log.old_path = "missing" \/ load_log.new_path = "missing")) =>
        /\ lpc = "done"
        /\ load_ret = "False"
        /\ ~is_initialized
        /\ load_log.upload_file =
               (IF load_log.old_path \in {"uploaded", "upload_error"} THEN 1 ELSE 0)
             + (IF load_log.new_path \in {"uploaded", "upload_error"} THEN 1 ELSE 0)
        /\ load_log.get_file = 0
        /\ load_log.polls = 0
        /\ load_log.slept = 0
        /\ load_log.wait = "none"

C7_Witness ==
    /\ lpc = "done"
    /\ ~load_log.was_initialized
    /\ load_log.old_path = "uploaded"
    /\ load_log.new_path = "missing"
    /\ load_ret = "False"

\* C8: _wait_for_files_active sleeps at most 60 time units in at most 30 polls of
\* 2 units each, and when the budget is used up it returns normally: the load
\* goes on and returns True.
C8_WaitBounded ==
    /\ elapsed <= 60
    /\ load_log.slept <= 60
    /\ load_log.slept = elapsed
    /\ load_log.polls <= 30
    /\ load_log.slept <= 2 * load_log.polls
    /\ load_log.wait = "timeout" =>
           (lpc = "done" /\ load_ret = "True" /\ load_log.slept = 60 /\ load_log.polls = 30)

C8_Witness ==
    /\ load_log.wait = "timeout"
    /\ load_ret = "True"
    /\ fileState[new_kuhp_file.name] = "PROCESSING"

\* C9 as stated: once initialized, the flag stays true and both handles stay
\* the same in every later state.
C9_HandlesNeverChange ==
    [][is_initialized =>
          /\ is_initialized'
          /\ old_kuhp_file' = old_kuhp_file
          /\ new_kuhp_file' = new_kuhp_file]_vars

\* C9 amended: once initialized, the flag stays true and both handles stay
\* non-null; no step of analyze_differences changes a handle or the flag; only
\* an upload step of a later load_documents() call replaces a handle.
C9_ReadyPersists ==
    [][is_initialized =>
          /\ is_initialized'
          /\ old_kuhp_file' # NoFile
          /\ new_kuhp_file' # NoFile
          /\ old_kuhp_file' # old_kuhp_file => lpc = "old"
          /\ new_kuhp_file' # new_kuhp_file => lpc = "new"
          /\ pc' # pc => UNCHANGED analyzerVars]_vars

\* A later load returned False and the analyzer is still initialized.
C9_Witness ==
    /\ is_initialized
    /\ load_log.was_initialized
    /\ lpc = "done"
    /\ load_ret = "False"

\* C10: when the first attempt of a call reaches generate_content and gets a
\* text, the call is over with exactly one generation call (3-part content),
\* two state fetches, no backoff wait, and the result
\* {response: that text, is_relevant: true, files_used: 2}.
C10_FirstAttemptSuccess ==
    \A c \in Callers :
        (/\ Len(gens[c]) >= 1
         /\ gens[c][1].attempt = 0
         /\ gens[c][1].reply \notin {"", "raise"}) =>
            /\ pc[c] = "done"
            /\ Len(gens[c]) = 1
            /\ Len(gens[c][1].content) = 3
            /\ ncalls[c] = [get_file |-> 2, generate_content |-> 1, upload_file |-> 0]
            /\ waits[c] = <<>>
            /\ errs[c] = <<>>
            /\ result[c] = Returned([response |-> gens[c][1].reply,
                                     is_relevant |-> TRUE, files_used |-> 2])

C10_Witness ==
    \E c \in Callers :
        /\ pc[c] = "done"
        /\ query[c] = QPasal
        /\ Len(gens[c]) = 1
        /\ gens[c][1].reply = "analisis"
        /\ result[c].kind = "return"

\* ------------------------------------------------------------- _check_query_relevance alone
\* Queries over a few letters, in both cases, up to MaxQueryLen characters.
RelAlphabet == {"k", "u", "h", "p", "K", "x"}
RelQueries == UNION {[1..n -> RelAlphabet] : n \in 0..MaxQueryLen}

InitRel ==
    /\ is_initialized = FALSE
    /\ old_kuhp_file = NoFile
    /\ new_kuhp_file = NoFile
    /\ fileState = <<>>
    /\ uploaded = 0
    /\ lpc = "idle"
    /\ loads = 0
    /\ elapsed = 0
    /\ old_file_info = "None"
    /\ load_ret = "none"
    /\ load_log = NoLoadLog
    /\ pc = [c \in Callers |-> "idle"]
    /\ \E q \in RelQueries : query = [c \in Callers |-> q]
    /\ prompt = [c \in Callers |-> <<>>]
    /\ attempt = [c \in Callers |-> 0]
    /\ retry_delay = [c \in Callers |-> initial_retry_delay]
    /\ seen_old = [c \in Callers |-> "None"]
    /\ seen_new = [c \in Callers |-> "None"]
    /\ waits = [c \in Callers |-> <<>>]
    /\ errs = [c \in Callers |-> <<>>]
    /\ gens = [c \in Callers |-> <<>>]
    /\ ncalls = [c \in Callers |-> NoCalls]
    /\ result = [c \in Callers |-> NoResult]

\* A caller evaluates _check_query_relevance(query) and keeps the answer.
RelevanceCheck(c) ==
    /\ pc[c] = "idle"
    /\ Finish(c, Returned(check_query_relevance(query[c])))
    /\ UNCHANGED <<analyzerVars, storeVars, loadVars, query, prompt, attempt, retry_delay,
                   seen_old, seen_new, waits, errs, gens, ncalls>>

NextRel == \E c \in Callers : RelevanceCheck(c)

SpecRel == InitRel /\ [][NextRel]_vars

\* Term k stands in q at position i, letter by letter, case ignored.
TermAt(q, k, i) == \A j \in 1..Len(k) : LowerChar(q[i + j - 1]) = k[j]

\* C11: _check_query_relevance(query) is true exactly when some term of the
\* vocabulary stands in the query at some position, case ignored (also inside
\* a longer word), and two evaluations on the same query agree.
C11_RelevanceIsSubstringTest ==
    \A c \in Callers :
        pc[c] = "done" =>
            /\ result[c].value =
                   (\E n \in 1..Len(kuhp_keywords) :
                        \E i \in 1..(Len(query[c]) - Len(kuhp_keywords[n]) + 1) :
                            TermAt(query[c], kuhp_keywords[n], i))
            /\ \A d \in Callers :
                   (pc[d] = "done" /\ query[d] = query[c]) => result[d] = result[c]

C11_Witness ==
    \E c \in Callers :
        /\ pc[c] = "done"
        /\ query[c] = <<"x", "K", "u", "h", "p">>
        /\ result[c] = Returned(TRUE)

\* C12: a load in which an upload raised is over: it returned False (the
\* exception did not reach the caller), is_initialized is as it was before the
\* call, and no state was polled.
C12_UploadErrorFailsLoad ==
    (load_log.old_path = "upload_error" \/ load_log.new_path = "upload_error") =>
        /\ lpc = "done"
        /\ load_ret = "False"
        /\ is_initialized = load_log.was_initialized
        /\ load_log.get_file = 0
        /\ load_log.polls = 0
        /\ load_log.slept = 0
        /\ load_log.wait = "none"

C12_Witness ==
    /\ lpc = "done"
    /\ load_log.old_path = "uploaded"
    /\ load_log.new_path = "upload_error"
    /\ load_ret = "False"
    /\ ~is_initialized

\* ------------------------------------------------------------- POST /analyze
\* The global kuhp_agent after startup_event: the analyzer.  startup_event sets
\* it to None only when an exception reaches it, and load_documents raises
\* none: a load that returned False only prints a warning.
kuhp_agent == "KUHPAnalyzer"

\* not request.query or not request.query.strip()
IsBlank(q) == \A i \in 1..Len(q) : q[i] = " "

\* The status analyze_kuhp_difference answers with, for the agent, the query
\* of the request and the outcome of agent.analyze_differences(query).
analyze_kuhp_difference(agent, q, outcome) ==
    IF agent = "None" THEN 503
    ELSE IF IsBlank(q) THEN 400
    ELSE IF outcome.kind = "raise" THEN 500
    ELSE 200

\* The status of the request a caller's finished call belongs to.
HttpStatus(c) == analyze_kuhp_difference(kuhp_agent, query[c], result[c])

\* C13: a request served by an agent whose document load did not succeed is
\* answered with 503, whatever the query.
C13_UninitializedAnswers503 ==
    \A c \in Callers :
        (pc[c] = "done" /\ loads >= 1 /\ ~is_initialized) => HttpStatus(c) = 503

\* C14: a load whose wait ran out of time is over with both files uploaded,
\* True returned and is_initialized true, whatever the states of the files.
C14_TimeoutStillLoads ==
    load_log.wait = "timeout" =>
        /\ lpc = "done"
        /\ load_ret = "True"
        /\ is_initialized
        /\ load_log.old_path = "uploaded"
        /\ load_log.new_path = "uploaded"
        /\ old_kuhp_file # NoFile
        /\ new_kuhp_file # NoFile

\* Initialized after a timeout while the old file has failed.
C14_Witness ==
    /\ load_log.wait = "timeout"
    /\ is_initialized
    /\ ~load_log.was_initialized
    /\ fileState[old_kuhp_file.name] = "FAILED"

\* C15 as stated: after a load that uploaded the old file and found the new
\* path missing (or its upload raised), False was returned, the old handle is
\* non-null, the new handle is null and is_initialized is false; after a load
\* that found the old path missing, the new path was not examined and nothing
\* was uploaded.
C15_PartialStateAsStated ==
    /\ (load_log.old_path = "uploaded" /\ load_log.new_path \in {"missing", "upload_error"}) =>
           /\ load_ret = "False"
           /\ old_kuhp_file # NoFile
           /\ new_kuhp_file = NoFile
           /\ ~is_initialized
    /\ load_log.old_path = "missing" =>
           (load_log.new_path = "unexamined" /\ load_log.upload_file = 0)

\* C15 amended: after such a load, False was returned, the old handle is the
\* file just uploaded, and the new handle and is_initialized are as they were
\* before the call (null and false on a fresh analyzer); after a load that
\* found the old path missing, the new path was not examined, nothing was
\* uploaded and both handles and is_initialized are as before.
C15_PartialStateAfterFailedLoad ==
    /\ (load_log.old_path = "uploaded" /\ load_log.new_path \in {"missing", "upload_error"}) =>
           /\ lpc = "done"
           /\ load_ret = "False"
           /\ old_kuhp_file = [name |-> uploaded, display_name |-> "KUHP Lama"]
           /\ old_kuhp_file # NoFile
           /\ old_kuhp_file # load_log.old_before
           /\ new_kuhp_file = load_log.new_before
           /\ is_initialized = load_log.was_initialized
    /\ load_log.old_path = "missing" =>
           /\ lpc = "done"
           /\ load_ret = "False"
           /\ load_log.new_path = "unexamined"
           /\ load_log.upload_file = 0
           /\ old_kuhp_file = load_log.old_before
           /\ new_kuhp_file = load_log.new_before
           /\ is_initialized = load_log.was_initialized

C15_Witness ==
    /\ lpc = "done"
    /\ load_log.old_path = "uploaded"
    /\ load_log.new_path = "missing"
    /\ old_kuhp_file # NoFile
    /\ new_kuhp_file = NoFile
    /\ ~is_initialized

\* What an attempt fails with when _verify_files_ready raises.
ReadinessErrors == NotActiveErrors \cup {"get_file failed"}

\* C16: an attempt that failed in _verify_files_ready is one of the 3 attempts:
\* it issued no generation call, is followed by the backoff wait and by a new
\* attempt that fetches both states again, and its error reaches the caller
\* only as the error of the 3rd attempt; an attempt whose two fetches report
\* ACTIVE goes on to generation, whatever failed before.
C16_ReadinessFailureIsTransient ==
    /\ [](\A c \in Callers :
            /\ \A a \in 1..Len(errs[c]) :
                   errs[c][a] \in ReadinessErrors =>
                       /\ GensOfAttempt(c, a - 1) = {}
                       /\ a < 3 => (Len(waits[c]) >= a \/ (pc[c] = "backoff" /\ a = Len(errs[c])))
            /\ (result[c].kind = "raise" /\ result[c].error \in ReadinessErrors) =>
                   (Len(errs[c]) = 3 /\ result[c].error = errs[c][3])
            /\ pc[c] = "verify_old" => (seen_old[c] = "None" /\ seen_new[c] = "None")
            /\ pc[c] = "generate" => ncalls[c].get_file >= Len(errs[c]) + 2)
    /\ [][\A c \in Callers :
            (/\ pc[c] = "verify_new"
             /\ seen_old[c] = "ACTIVE"
             /\ seen_new'[c] = "ACTIVE") => pc'[c] = "generate"]_vars

\* Two readiness failures, then the third attempt generated and returned.
C16_Witness ==
    \E c \in Callers :
        /\ pc[c] = "done"
        /\ Len(errs[c]) = 2
        /\ errs[c][1] = "KUHP Lama file is not active"
        /\ errs[c][2] = "get_file failed"
        /\ waits[c] = <<2, 4>>
        /\ Len(gens[c]) = 1
        /\ gens[c][1].attempt = 2
        /\ result[c].kind = "return"

EmptyResponse == "Empty response received from Gemini"

\* C17: a generation call answered without text is a failed attempt with the
\* empty-response error: retried after the backoff while attempts remain,
\* raised when it was the 3rd; no call returns a relevant result whose
\* response is empty.
C17_EmptyResponseIsFailure ==
    \A c \in Callers :
        /\ \A i \in 1..Len(gens[c]) :
               gens[c][i].reply = "" =>
                   LET a == gens[c][i].attempt
                   IN  /\ Len(errs[c]) >= a + 1
                       /\ errs[c][a + 1] = EmptyResponse
                       /\ a < 2 => (pc[c] = "backoff" \/ Len(waits[c]) >= a + 1)
                       /\ a = 2 => (pc[c] = "done" /\ result[c] = Raised(EmptyResponse))
        /\ (result[c].kind = "return" /\ result[c].value.is_relevant) =>
               result[c].value.response # ""

\* An empty answer, then a text: the call returned the text.
C17_Witness ==
    \E c \in Callers :
        /\ pc[c] = "done"
        /\ Len(gens[c]) = 2
        /\ gens[c][1].reply = ""
        /\ gens[c][2].reply = "analisis"
        /\ result[c].kind = "return"
        /\ result[c].value.response = "analisis"

\* ------------------------------------------------------------- get_status
model_name == "gemini-2.0-flash"

get_status ==
    [model_name |-> model_name,
     is_initialized |-> is_initialized,
     files_uploaded |-> (old_kuhp_file # NoFile /\ new_kuhp_file # NoFile),
     old_kuhp_file |-> IF old_kuhp_file # NoFile THEN old_kuhp_file.display_name ELSE "None",
     new_kuhp_file |-> IF new_kuhp_file # NoFile THEN new_kuhp_file.display_name ELSE "None"]

\* C18: in every state, is_initialized implies that both handles are non-null;
\* so no call ends with the files-not-uploaded error of the second guard on an
\* initialized analyzer, and get_status never reports is_initialized true with
\* files_uploaded false.
C18_InitializedImpliesHandles ==
    /\ is_initialized => (old_kuhp_file # NoFile /\ new_kuhp_file # NoFile)
    /\ is_initialized => GuardError = "ok"
    /\ \A c \in Callers : result[c] # Raised("PDF files belum di-upload")
    /\ get_status.is_initialized => get_status.files_uploaded

\* Initialized, in the middle of a later load that has replaced the old handle.
C18_Witness ==
    /\ is_initialized
    /\ load_log.was_initialized
    /\ lpc = "new"
    /\ old_kuhp_file # load_log.old_before
    /\ get_status.files_uploaded

\* C20 as stated: after a load whose wait was ended by an exception of a state
\* fetch, False was returned and is_initialized is false, with both handles
\* recorded.
C20_WaitErrorAsStated ==
    load_log.wait = "error" =>
        /\ lpc = "done"
        /\ load_ret = "False"
        /\ ~is_initialized
        /\ old_kuhp_file # NoFile
        /\ new_kuhp_file # NoFile

\* C20 amended: after such a load, False was returned and is_initialized is as
\* it was before the call (false unless an earlier load succeeded), with both
\* handles those of the two files the call uploaded.
C20_WaitErrorAbortsLoad ==
    load_log.wait = "error" =>
        /\ lpc = "done"
        /\ load_ret = "False"
        /\ is_initialized = load_log.was_initialized
        /\ load_log.old_path = "uploaded"
        /\ load_log.new_path = "uploaded"
        /\ old_kuhp_file = [name |-> uploaded - 1, display_name |-> "KUHP Lama"]
        /\ new_kuhp_file = [name |-> uploaded, display_name |-> "KUHP Baru"]
        /\ load_log.get_file >= 1

\* The second fetch of the third poll raised, on a fresh analyzer.
C20_Witness ==
    /\ lpc = "done"
    /\ load_log.wait = "error"
    /\ load_log.polls = 2
    /\ load_log.get_file = 6
    /\ load_ret = "False"
    /\ ~is_initialized
    /\ old_kuhp_file # NoFile
    /\ new_kuhp_file # NoFile

\* ------------------------------------------------------------- overlapping calls
\* An analyzer whose load has succeeded (files 1 and 2, in whatever state the
\* store has them by now), used by callers whose analyze_differences calls may
\* overlap (a threaded server).  No load runs and the store stands still while
\* the calls are in flight; attempts fail on a file that is not ACTIVE, on a
\* get_file or generate_content exception, or on an empty answer.
InitOverlap ==
    /\ is_initialized = TRUE
    /\ old_kuhp_file = [name |-> 1, display_name |-> "KUHP Lama"]
    /\ new_kuhp_file = [name |-> 2, display_name |-> "KUHP Baru"]
    /\ fileState \in [{1, 2} -> FileStates]
    /\ uploaded = 2
    /\ lpc = "idle"
    /\ loads = 1
    /\ elapsed = 0
    /\ old_file_info = "None"
    /\ load_ret = "none"
    /\ load_log = NoLoadLog
    /\ pc = [c \in Callers |-> "idle"]
    /\ query = [c \in Callers |-> <<>>]
    /\ prompt = [c \in Callers |-> <<>>]
    /\ attempt = [c \in Callers |-> 0]
    /\ retry_delay = [c \in Callers |-> initial_retry_delay]
    /\ seen_old = [c \in Callers |-> "None"]
    /\ seen_new = [c \in Callers |-> "None"]
    /\ waits = [c \in Callers |-> <<>>]
    /\ errs = [c \in Callers |-> <<>>]
    /\ gens = [c \in Callers |-> <<>>]
    /\ ncalls = [c \in Callers |-> NoCalls]
    /\ result = [c \in Callers |-> NoResult]

NextOverlap ==
    \/ \E c \in Callers : AnalyzeBegin(c)
    \/ \E c \in Callers : VerifyOld(c)
    \/ \E c \in Callers : VerifyNew(c)
    \/ \E c \in Callers : Generate(c)
    \/ \E c \in Callers : Backoff(c)
    \/ \E c \in Callers : AnalyzeRelease(c)

SpecOverlap == InitOverlap /\ [][NextOverlap]_vars

\* C19: with overlapping calls, each call has its own 3 attempts and its own
\* backoff starting at 2: a call in flight has made as many waits as it has
\* failed attempts behind it, the waits are 2 then 4, and its next delay is 2,
\* 4 or 8 accordingly; a step of one call changes neither the attempt, the
\* delay, the waits nor the errors of another; and no step of a call changes
\* a handle or is_initialized.
C19_RetryStateIsPerCall ==
    /\ [](\A c \in Callers :
            /\ attempt[c] <= 2
            /\ Len(errs[c]) <= 3
            /\ waits[c] = SubSeq(<<2, 4>>, 1, Len(waits[c]))
            /\ retry_delay[c] = <<2, 4, 8>>[Len(waits[c]) + 1]
            /\ pc[c] \in {"verify_old", "verify_new", "generate"} =>
                   (Len(errs[c]) = attempt[c] /\ Len(waits[c]) = attempt[c])
            /\ pc[c] = "backoff" => (Len(errs[c]) = attempt[c] + 1 /\ Len(waits[c]) = attempt[c])
            /\ Len(errs[c]) = 3 => (pc[c] = "done" /\ result[c] = Raised(errs[c][3])))
    /\ [][/\ UNCHANGED analyzerVars
          /\ \A c \in Callers : \A d \in Callers \ {c} :
                 pc'[c] # pc[c] =>
                     /\ attempt'[d] = attempt[d]
                     /\ retry_delay'[d] = retry_delay[d]
                     /\ waits'[d] = waits[d]
                     /\ errs'[d] = errs[d]
                     /\ pc'[d] = pc[d]]_vars

\* One call is about to make its second wait while the other is in the middle
\* of its first attempt.
C19_Witness ==
    /\ pc[1] = "backoff"
    /\ Len(errs[1]) = 2
    /\ retry_delay[1] = 4
    /\ pc[2] = "verify_new"
    /\ attempt[2] = 0
    /\ retry_delay[2] = 2
====
